---- MODULE Spec2Model ----
(***************************************************************************)
(* Model of data_validation/.../validation_scripts/dataset_validation.py:  *)
(* the run of validation(spark, args) against a Spark session.             *)
(*                                                                         *)
(* SQL texts are sequences of tokens (a predicate or a column list is one  *)
(* token), built as the f-strings of the source build them and read back   *)
(* by the engine operators (spark_sql), which parse, resolve and evaluate  *)
(* them.  A Python None is the value PyNone; str(None) is "None".          *)
(***************************************************************************)
EXTENDS Integers, Sequences, FiniteSets, TLC

\* ---------------------------------------------------------------- bounds
MaxKey == 2
MaxRows == 3
MaxCols == 2

\* ------------------------------------------------------------ the engine
PyNone == "<None>"
NoExc == "none"

FileFormats == {"parquet", "orc", "csv"}
Formats == FileFormats \cup {"hive", "json"}

\* the datasets the catalog knows (also loadable as paths); "tx" is not there
TableNames == {"ta", "tb"}
DatasetRefs == TableNames \cup {"tx"}

PartValues == {1, 2}
AmountValues == {50, 150}
Rows == [k : 1..MaxKey, p : PartValues, a : AmountValues]
Datasets == {d \in SUBSET Rows : Cardinality(d) <= MaxRows}

\* columns of both datasets: k, p, a integers, v an integer, d a date
BaseCols == {"k", "p", "a", "v", "d"}
DateCols == {"d"}

PartPreds == {"p = 1", "p = 2"}
FilterPreds == {"a > 100"}
Preds == PartPreds \cup FilterPreds
PKs == {"k", "k,p"}

Holds(pred, row) ==
    CASE pred = "p = 1" -> row.p = 1
      [] pred = "p = 2" -> row.p = 2
      [] pred = "a > 100" -> row.a > 100
      [] OTHER -> FALSE

\* the value of a column in a row; the columns that the rows of the model do
\* not vary (v, d and the ones of extraCols) hold 0 in every row
Value(col, row) ==
    CASE col = "k" -> row.k
      [] col = "p" -> row.p
      [] col = "a" -> row.a
      [] OTHER -> 0

\* the value of the key columns of a row
Key(pk, row) == IF pk = "k,p" THEN <<row.k, row.p>> ELSE <<Value(pk, row)>>

VARIABLES args, tables, extraCols, nullName, views, pc, exc, vi, call, result, shown,
          out, sqls, lists

vars == <<args, tables, extraCols, nullName, views, pc, exc, vi, call, result, shown,
          out, sqls, lists>>

\* f"{x}"
Str(x) == IF x = PyNone THEN "None" ELSE x

RECURSIVE Join(_, _)
\* sep.join(seq), as tokens
Join(seq, sep) ==
    IF Len(seq) = 0 THEN <<>>
    ELSE IF Len(seq) = 1 THEN <<seq[1]>>
    ELSE <<seq[1], sep>> \o Join(Tail(seq), sep)

Range(seq) == {seq[n] : n \in 1..Len(seq)}

Index(seq, tok) ==
    IF tok \in Range(seq) THEN CHOOSE n \in 1..Len(seq) :
                                 seq[n] = tok /\ \A m \in 1..(n - 1) : seq[m] # tok
    ELSE 0

RECURSIVE SplitOn(_, _)
\* s.split(sep), s at its first sep (idx; 0: none)
SplitAt(s, sep, idx) ==
    IF idx = 0 THEN <<s>>
    ELSE <<SubSeq(s, 1, idx - 1)>> \o SplitOn(SubSeq(s, idx + 1, Len(s)), sep)

\* s.split(sep), on tokens
SplitOn(s, sep) == SplitAt(s, sep, Index(s, sep))

\* s.split(",")
Split(s) == SplitOn(s, ",")

RECURSIVE JoinAll(_, _)
\* sep.join(seq) when the elements of seq are themselves several tokens
JoinAll(seq, sep) ==
    IF Len(seq) = 0 THEN <<>>
    ELSE IF Len(seq) = 1 THEN seq[1]
    ELSE seq[1] \o <<sep>> \o JoinAll(Tail(seq), sep)

\* ------------------------------------------------- the engine: spark.sql
\* the tokens at the odd places of seq, when the even places all hold sep
OddPlaces(seq) == [n \in 1..((Len(seq) + 1) \div 2) |-> seq[2 * n - 1]]

Separated(seq, sep) ==
    /\ Len(seq) % 2 = 1
    /\ \A n \in 1..Len(seq) : (n % 2 = 0) => seq[n] = sep
    /\ \A n \in 1..Len(seq) : (n % 2 = 1) => seq[n] \notin {sep, ""}

\* "select <items> from <relation> [where <pred> and ...]", "from" at fromIdx
SelectAt(part, fromIdx, itemToks, rest) ==
    IF /\ Len(part) >= 4
       /\ part[1] = "select"
       /\ fromIdx >= 3
       /\ Separated(itemToks, ",")
       /\ Len(part) >= fromIdx + 1
       /\ part[fromIdx + 1] \notin {"", "where", "except", "select"}
       /\ \/ Len(rest) = 0
          \/ /\ rest[1] = "where"
             /\ Separated(Tail(rest), "and")
    THEN [ok |-> TRUE, items |-> OddPlaces(itemToks), rel |-> part[fromIdx + 1],
          preds |-> IF Len(rest) = 0 THEN <<>> ELSE OddPlaces(Tail(rest))]
    ELSE [ok |-> FALSE, items |-> <<>>, rel |-> "", preds |-> <<>>]

SelectFrom(part, fromIdx) ==
    SelectAt(part, fromIdx, SubSeq(part, 2, fromIdx - 1),
             SubSeq(part, fromIdx + 2, Len(part)))

\* the parser on one select
ParseSelect(part) == SelectFrom(part, Index(part, "from"))

\* the parser on "<select> [except <select>]", "except" at ex (0: none)
ParseAt(sql, ex) ==
    IF ex = 0 THEN <<ParseSelect(sql)>>
    ELSE <<ParseSelect(SubSeq(sql, 1, ex - 1)), ParseSelect(SubSeq(sql, ex + 1, Len(sql)))>>

ParseQuery(sql) == ParseAt(sql, Index(sql, "except"))

\* the columns a select item may name
Schema == BaseCols \cup extraCols \cup PKs \cup {"*"}

\* the analyser: relations, columns and predicates of one select resolve
Resolvable(q, vw) ==
    /\ q.rel \in (DOMAIN vw) \cup TableNames
    /\ \A n \in 1..Len(q.items) : q.items[n] \in Schema
    /\ \A n \in 1..Len(q.preds) : q.preds[n] \in Preds

\* temporary views shadow catalog tables
RelationRows(rel, vw) == IF rel \in DOMAIN vw THEN vw[rel].rows ELSE tables[rel]

\* the rows of one select that satisfy its predicates, projected on its
\* first item (the key): the distinct key rows
SelectKeys(q, vw) ==
    {Key(q.items[1], r) : r \in {x \in RelationRows(q.rel, vw) :
                                   \A n \in 1..Len(q.preds) : Holds(q.preds[n], x)}}

\* EXCEPT is the set difference of the distinct rows of its two sides
Evaluate(qs, vw) ==
    IF \E n \in 1..Len(qs) : ~qs[n].ok
    THEN [exc |-> "ParseException", keys |-> {}]
    ELSE IF \E n \in 1..Len(qs) : ~Resolvable(qs[n], vw)
    THEN [exc |-> "AnalysisException", keys |-> {}]
    ELSE [exc |-> NoExc,
          keys |-> IF Len(qs) = 1 THEN SelectKeys(qs[1], vw)
                   ELSE SelectKeys(qs[1], vw) \ SelectKeys(qs[2], vw)]

\* The query of get_cols_diff_with_same_pk:
\*   SELECT <items> FROM <rel> t1 FULL OUTER JOIN <rel> t2 ON <conds>
\*   WHERE ( <t1.c <> t2.c or ...> ) [AND ( <t1.pred AND ...> )]...
NotBlank(tok) == tok # " "

\* "t1.c" or "t1.c as t1_c"
ItemOk(it) ==
    /\ Len(it) \in {2, 5}
    /\ it[1] \in {"t1.", "t2."}
    /\ Len(it) = 5 => (it[3] = "as" /\ it[4] \in {"t1_", "t2_"})

\* "t1.c <op> t2.c"
CondOk(c, op) == Len(c) = 5 /\ c[1] = "t1." /\ c[3] = op /\ c[4] = "t2."

PredOk(pd) == Len(pd) = 2 /\ pd[1] = "t1."

\* "WHERE ( t1.c <> t2.c or ..."
WhereGroupOk(g) ==
    /\ Len(g) >= 1
    /\ g[1] = "WHERE ("
    /\ \A c \in Range(SplitOn(Tail(g), "or")) : CondOk(c, "<>")

\* "AND ( t1.pred AND ..."
AndGroupOk(g) ==
    /\ Len(g) >= 1
    /\ g[1] = "AND ("
    /\ \A pd \in Range(SplitOn(Tail(g), "AND")) : PredOk(pd)

\* the parser: items, conds and the parentheses after WHERE (groups: the text
\* split at ")", so that its last part is empty)
JoinOk(items, conds, groups) ==
    /\ \A n \in 1..Len(items) : ItemOk(items[n])
    /\ \A n \in 1..Len(conds) : CondOk(conds[n], "=")
    /\ Len(groups) >= 2
    /\ groups[Len(groups)] = <<>>
    /\ WhereGroupOk(groups[1])
    /\ \A n \in 2..(Len(groups) - 1) : AndGroupOk(groups[n])

\* the predicates on t1 of the parentheses after the first
JoinPreds(groups) ==
    UNION {{pd[2] : pd \in Range(SplitOn(Tail(groups[n]), "AND"))} :
             n \in 2..(Len(groups) - 1)}

\* the analyser: both relations, every column and every predicate resolve
JoinResolvable(items, rels, conds, groups, vw) ==
    /\ rels \subseteq (DOMAIN vw) \cup TableNames
    /\ \A n \in 1..Len(items) : items[n][2] \in BaseCols \cup extraCols
    /\ \A n \in 1..Len(conds) : {conds[n][2], conds[n][5]} \subseteq BaseCols \cup extraCols
    /\ \A c \in Range(SplitOn(Tail(groups[1]), "or")) :
          {c[2], c[5]} \subseteq BaseCols \cup extraCols
    /\ JoinPreds(groups) \subseteq Preds

\* a row of t1 and a row of t2 that the ON conditions join and the WHERE
\* keeps (a row without a partner has nulls on the other side, on which no
\* "<>" holds, so the WHERE drops it)
JoinKeeps(r1, r2, conds, groups) ==
    /\ \A n \in 1..Len(conds) : Value(conds[n][2], r1) = Value(conds[n][5], r2)
    /\ \E c \in Range(SplitOn(Tail(groups[1]), "or")) : Value(c[2], r1) # Value(c[5], r2)
    /\ \A pd \in JoinPreds(groups) : Holds(pd, r1)

JoinRows(items, rows1, rows2, conds, groups) ==
    {[n \in 1..Len(items) |->
         Value(items[n][2], IF items[n][1] = "t1." THEN r[1] ELSE r[2])] :
       r \in {x \in rows1 \X rows2 : JoinKeeps(x[1], x[2], conds, groups)}}

EvaluateJoin(items, rel1, rel2, conds, groups, vw) ==
    IF ~JoinOk(items, conds, groups)
    THEN [exc |-> "ParseException", keys |-> {}]
    ELSE IF ~JoinResolvable(items, {rel1, rel2}, conds, groups, vw)
    THEN [exc |-> "AnalysisException", keys |-> {}]
    ELSE [exc |-> NoExc,
          keys |-> JoinRows(items, RelationRows(rel1, vw), RelationRows(rel2, vw),
                            conds, groups)]

\* the parser on the join text, its keywords at iFrom, iOn and iWhere
JoinAt(sql, iFrom, iOn, iWhere, vw) ==
    IF ~(2 < iFrom /\ iFrom + 6 = iOn /\ iOn + 1 < iWhere)
    THEN [exc |-> "ParseException", keys |-> {}]
    ELSE EvaluateJoin(SplitOn(SubSeq(sql, 2, iFrom - 1), ","),
                      sql[iFrom + 1], sql[iFrom + 4],
                      SplitOn(SubSeq(sql, iOn + 1, iWhere - 1), "AND"),
                      SplitOn(SubSeq(sql, iWhere, Len(sql)), ")"), vw)

\* blanks between tokens do not count
spark_sql_join(sql, vw) ==
    JoinAt(sql, Index(sql, "FROM"), Index(sql, "ON"), Index(sql, "WHERE ("), vw)

\* spark.sql(sql): parse, analyse, and the rows the query yields when shown
spark_sql(sql, vw) ==
    IF "FULL OUTER JOIN" \in Range(sql) THEN spark_sql_join(SelectSeq(sql, NotBlank), vw)
    ELSE Evaluate(ParseQuery(sql), vw)

\* what catalog().tableExists does when it is handed a null name
NullNameAnswers == {"False", "raise"}

\* spark._jsparkSession.catalog().tableExists(name); a name that is None is
\* handed to the JVM as null, and the catalog either finds no such table or
\* fails on it (nullName)
tableExists(name, vw) ==
    [exc |-> IF name = PyNone /\ nullName = "raise" THEN "Py4JJavaError" ELSE NoExc,
     ret |-> name \in TableNames \cup DOMAIN vw]

\* mutant: a view that already exists is kept as it is
createTempViewIfAbsent(path, view_name, vw) ==
    IF path \notin TableNames \/ view_name = ""
    THEN [exc |-> "AnalysisException", views |-> vw]
    ELSE [exc |-> NoExc,
          views |-> [v \in (DOMAIN vw) \cup {view_name} |->
                       IF v \in DOMAIN vw THEN vw[v]
                       ELSE [src |-> path, rows |-> tables[path]]]]

\* spark.read.format(format).load(path).createOrReplaceTempView(view_name):
\* the path must exist and the view name must be an identifier
createOrReplaceTempView(path, view_name, vw) ==
    IF path \notin TableNames \/ view_name = ""
    THEN [exc |-> "AnalysisException", views |-> vw]
    ELSE [exc |-> NoExc,
          views |-> [v \in (DOMAIN vw) \cup {view_name} |->
                       IF v = view_name THEN [src |-> path, rows |-> tables[path]]
                       ELSE vw[v]]]

\* ------------------------------------------------------------ the script
None == [df |-> FALSE, keys |-> {}]
DataFrame(keys) == [df |-> TRUE, keys |-> keys]

\* what a call leaves behind: the exception it raised (or NoExc), its return
\* value, the views registered, the SQL texts given to spark.sql, the lines printed
Outcome(e, r, vw, q, o) == [exc |-> e, ret |-> r, views |-> vw, sqls |-> q, out |-> o]

\* statement r run after statements o: skipped when o raised
Merge(o, r) ==
    IF o.exc # NoExc THEN o
    ELSE Outcome(r.exc, r.ret, r.views, o.sqls \o r.sqls, o.out \o r.out)

\* the statement "... .createOrReplaceTempView(view_name)"
ViewStmt(loaded) == Outcome(loaded.exc, None, loaded.views, <<>>, <<>>)

\* the statement "result = spark.sql(sql)"
SqlResult(sql, vw, res) ==
    Outcome(res.exc, IF res.exc = NoExc THEN DataFrame(res.keys) ELSE None, vw, <<sql>>, <<>>)

SqlStmt(sql, vw) == SqlResult(sql, vw, spark_sql(sql, vw))

\* the statement "print(line)" after statements o, the function then returning None
PrintStmt(o, line) ==
    IF o.exc # NoExc THEN o ELSE Outcome(NoExc, None, o.views, o.sqls, Append(o.out, line))

\* the text of a flag value, as tokens (a column name, "," or " "); the flag
\* values of ArgsSet are each one token
Text(s) == <<s>>

RECURSIVE Strip(_)
\* s.strip()
Strip(s) ==
    IF Len(s) > 0 /\ s[1] = " " THEN Strip(Tail(s))
    ELSE IF Len(s) > 0 /\ s[Len(s)] = " " THEN Strip(SubSeq(s, 1, Len(s) - 1))
    ELSE s

\* [x.strip() for x in seq]
StripAll(seq) == [n \in 1..Len(seq) |-> Strip(seq[n])]

RECURSIVE KeepNotIn(_, _)
\* [x for x in seq if x not in excluded]
KeepNotIn(seq, excluded) ==
    IF Len(seq) = 0 THEN <<>>
    ELSE (IF seq[1] \notin Range(excluded) THEN <<seq[1]>> ELSE <<>>)
         \o KeepNotIn(Tail(seq), excluded)

\* line 78 (and line 142)
excluded_columns_list(e) == StripAll(Split(e))

\* line 79: the entries of i are tested against the excluded names as they
\* are split, and stripped afterwards
verify_column(i, e) == StripAll(KeepNotIn(Split(i), excluded_columns_list(e)))

\* lines 141-144 and 149 of get_cols_diff_with_same_pk: the columns c whose
\* t1 and t2 values are selected and compared
compared_columns(included_columns, excluded_columns) ==
    KeepNotIn(StripAll(Split(included_columns)), excluded_columns_list(excluded_columns))

\* a None where the source expects a str
NoneText == <<PyNone>>

\* [f(x) for x in seq], f pasting the tokens of x after a prefix
Prefixed(prefix, seq) == [n \in 1..Len(seq) |-> <<prefix>> \o seq[n]]

\* f't1.{c} as t1_{c}, t2.{c} as t2_{c}'
BothSides(c) ==
    <<"t1.">> \o c \o <<"as", "t1_">> \o c \o <<",", "t2.">> \o c \o <<"as", "t2_">> \o c

\* f't1.{c} <op> t2.{c}'
Compare(c, op) == <<"t1.">> \o c \o <<op, "t2.">> \o c

\* lines 151-153 (155-157): the parenthesis that a predicate text adds
AndClause(text) ==
    IF text # Text("None")
    THEN <<"AND (">> \o JoinAll(Prefixed("t1.", StripAll(SplitOn(text, "and"))), "AND")
         \o <<")">>
    ELSE <<>>

\* lines 143-157: the text of the query, pk_list and cols being the stripped
\* key columns and the compared columns
DiffSql(pk, pk_list, cols, partitions, filter) ==
    <<"SELECT">>
    \o JoinAll(Prefixed("t1.", Split(pk)) \o [n \in 1..Len(cols) |-> BothSides(cols[n])], ",")
    \o <<"FROM", "table1", "t1", "FULL OUTER JOIN", "table2", "t2", "ON">>
    \o JoinAll([n \in 1..Len(pk_list) |-> Compare(pk_list[n], "=")], "AND")
    \o <<"WHERE (">>
    \o JoinAll([n \in 1..Len(cols) |-> Compare(cols[n], "<>")], "or")
    \o <<")">>
    \o AndClause(partitions)
    \o AndClause(filter)

\* table1_name and table2_name are never read: the text names the views
\* table1 and table2
get_cols_diff_with_same_pk(format, table1_name, table2_name, pk, partitions, filter, included_columns, excluded_columns, vw) ==
    IF format \in FileFormats
    THEN \* None.split(...): AttributeError
         IF NoneText \in {pk, included_columns, excluded_columns, partitions, filter}
         THEN Outcome("AttributeError", None, vw, <<>>, <<>>)
         ELSE SqlStmt(DiffSql(pk, StripAll(Split(pk)),
                              compared_columns(included_columns, excluded_columns),
                              partitions, filter), vw)
    ELSE IF format = "hive"
    THEN Outcome(NoExc, None, vw, <<>>, <<<<"----todo---hive-load_table-">>>>)
    ELSE Outcome(NoExc, None, vw, <<>>, <<>>)

\* lines 184-189 of load_table, after the view statement
LoadSelect(o, sql, line) == PrintStmt(Merge(o, SqlStmt(sql, o.views)), line)

load_table(format, t1, t1p, pk, e, i, f, view_name, vw) ==
    IF format \in FileFormats
    THEN LET cols == IF i = PyNone THEN "*" ELSE i
             select == <<"select", Str(pk), ",", Str(cols), "from", view_name>>
             where_clause ==
                 IF t1p # "None" /\ f # "None" THEN <<"where", Str(t1p), "and", Str(f)>>
                 ELSE IF t1p # "None" THEN <<"where", Str(t1p)>>
                 ELSE IF f # "None" THEN <<"where", Str(f)>>
                 ELSE <<>>
             path == t1
         IN  LoadSelect(ViewStmt(createOrReplaceTempView(path, view_name, vw)),
                        select \o where_clause, <<"DataFrame", Str(pk), Str(cols)>>)
    ELSE IF format = "hive"
    THEN Outcome(NoExc, None, vw, <<>>, <<<<"----todo---hive-load_table-">>>>)
    ELSE Outcome(NoExc, None, vw, <<>>, <<>>)

RECURSIVE Present(_)
\* [x for x in seq if x is not None and x != 'None']
Present(seq) ==
    IF Len(seq) = 0 THEN <<>>
    ELSE (IF seq[1] # PyNone /\ seq[1] # "None" THEN <<seq[1]>> ELSE <<>>)
         \o Present(Tail(seq))

\* lines 118-122, after the first load_table
LoadSecond(l1, format, t2, t2p, pk, e, i, f) ==
    Merge(l1, load_table(format, t2, t2p, pk, e, i, f, "table2", l1.views))

\* lines 120-122, after both load_table
ExceptViews(l2, pk) ==
    Merge(l2, SqlStmt(<<"select", Str(pk), "from", "table1",
                        "except", "select", Str(pk), "from", "table2">>, l2.views))

\* lines 130-134: the two prints, then spark.sql(sql)
ExceptTables(sql, vw) ==
    Merge(Outcome(NoExc, None, vw, <<>>, <<<<"-----yuadebug---">>, sql>>), SqlStmt(sql, vw))

\* the parameters o and of of the source are never read and are left out
valid_pk_only_in_one_table(format, t1, t2, t1p, t2p, pk, e, i, f, vw) ==
    IF format \in FileFormats
    THEN ExceptViews(LoadSecond(load_table(format, t1, t1p, pk, e, i, f, "table1", vw),
                                format, t2, t2p, pk, e, i, f), pk)
    ELSE IF format = "hive"
    THEN LET where_clause ==
                 IF \E cond \in {t1p, t2p, f} : cond # PyNone
                 THEN <<"where">> \o Join(Present(<<t1p, t2p, f>>), "and")
                 ELSE <<>>
         IN  ExceptTables(<<"select", Str(pk), "from", Str(t1),
                            "except", "select", Str(pk), "from", Str(t2)>> \o where_clause, vw)
    ELSE Outcome(NoExc, None, vw, <<>>, <<>>)

\* lines 63-65 (66-68): found is what tableExists gave for table t, rest what
\* follows when the table exists
TableChecked(found, t, vw, rest) ==
    IF found.exc # NoExc THEN Outcome(found.exc, FALSE, vw, <<>>, <<>>)
    ELSE IF ~found.ret
    THEN Outcome(NoExc, FALSE, vw, <<>>, <<<<"|--Table", Str(t), "does not exist!--|">>>>)
    ELSE rest

valid_table(a, vw) ==
    TableChecked(tableExists(a.t1, vw), a.t1, vw,
                 TableChecked(tableExists(a.t2, vw), a.t2, vw,
                              Outcome(NoExc, TRUE, vw, <<>>, <<>>)))

\* a statement of lines 78-88 raising e after load_table left table_DF behind
Raise(table_DF, e) == Outcome(e, FALSE, table_DF.views, table_DF.sqls, table_DF.out)

\* lines 78-88, table_DF being what load_table left behind and returned
Selected(a, table_DF, verify) ==
    \* table_DF.select(verify_column): every entry must name a column
    IF \E n \in 1..Len(verify) :
          Len(verify[n]) # 1 \/ verify[n][1] \notin BaseCols \cup extraCols
    THEN Raise(table_DF, "AnalysisException")
    \* fnmatch is not imported: NameError at the first field
    ELSE IF Len(verify) > 0 THEN Raise(table_DF, "NameError")
    ELSE Outcome(NoExc, TRUE, table_DF.views, table_DF.sqls, table_DF.out)

VerifyColumns(a, table_DF) ==
    IF table_DF.exc # NoExc THEN Raise(table_DF, table_DF.exc)
    \* None.split(","), None.select(...): AttributeError
    ELSE IF a.e = PyNone \/ ~table_DF.ret.df THEN Raise(table_DF, "AttributeError")
    ELSE Selected(a, table_DF, verify_column(Text(a.i), Text(a.e)))

\* mutant: line 77 loads the table under the view name "table1"
valid_metadata_named_view(a, vw) ==
    IF a.i \in {"None", "all"} THEN Outcome(NoExc, TRUE, vw, <<>>, <<>>)
    ELSE VerifyColumns(a, load_table(a.format, a.t1, a.t1p, a.pk, a.e, a.i, a.f, "table1", vw))

valid_metadata_included_column(a, vw) ==
    IF a.i \in {"None", "all"} THEN Outcome(NoExc, TRUE, vw, <<>>, <<>>)
    ELSE VerifyColumns(a, load_table(a.format, a.t1, a.t1p, a.pk, a.e, a.i, a.f, "", vw))

\* lines 55-57, after valid_metadata_included_column
CheckFormat(a, vm) ==
    IF vm.exc # NoExc \/ ~vm.ret THEN vm
    ELSE Outcome(NoExc, TRUE, vm.views, vm.sqls,
                 vm.out \o (IF a.format # "hive"
                            THEN <<<<"|--Currently only support hive format--|">>>>
                            ELSE <<>>))

\* lines 53-57, after valid_table
CheckColumns(a, vt, vw) ==
    IF ~vt.ret THEN vt ELSE CheckFormat(a, valid_metadata_included_column(a, vw))

valid_input(a, vw) == CheckColumns(a, valid_table(a, vw), vw)

\* ------------------------------------------------- validation(spark, args)
\* what the command line can give for each flag
PartArgs == PartPreds \cup {"None", PyNone}
FilterArgs == FilterPreds \cup {"None", PyNone}
IncludeArgs == {"None", "all", "d", "v", PyNone}
ExcludeArgs == {"None", "d", PyNone}

FormatArgs == Formats \cup {PyNone}
TableArgs == DatasetRefs \cup {PyNone}
PkArgs == PKs \cup {PyNone}

\* no flag is required: one that is not given is None
ArgsSet == [format : FormatArgs, t1 : TableArgs, t2 : TableArgs,
            t1p : PartArgs, t2p : PartArgs, pk : PkArgs,
            e : ExcludeArgs, i : IncludeArgs, f : FilterArgs]

\* every pair of tables holding at most MaxRows rows together
Worlds == {w \in [TableNames -> Datasets] :
             Cardinality(w["ta"]) + Cardinality(w["tb"]) <= MaxRows}

\* one pair of tables on which every predicate separates some rows
SampleTables ==
    [t \in TableNames |->
        IF t = "ta" THEN {[k |-> 1, p |-> 1, a |-> 150], [k |-> 2, p |-> 2, a |-> 50]}
        ELSE {[k |-> 2, p |-> 1, a |-> 150], [k |-> 2, p |-> 2, a |-> 150]}]

\* (t1p, t2p, f) of the runs that range over every pair of tables
PredTriples ==
    {<<"None", "None", "None">>, <<"None", "None", "a > 100">>,
     <<"p = 1", "None", "None">>, <<"None", "p = 1", "None">>,
     <<"p = 1", "p = 1", "a > 100">>, <<"p = 1", "p = 2", "None">>}

CompareArgs(t2s) ==
    {[format |-> fm, t1 |-> "ta", t2 |-> t2, t1p |-> tr[1], t2p |-> tr[2],
      pk |-> "k", e |-> "None", i |-> "None", f |-> tr[3]] :
        fm \in Formats, t2 \in t2s, tr \in PredTriples}

\* the dataset and partition arguments of a call of valid_pk_only_in_one_table
Frame(t1, t2, t1p, t2p) == [t1 |-> t1, t2 |-> t2, t1p |-> t1p, t2p |-> t2p]
NoCall == Frame("", "", "", "")

\* the column lists given to the two list comprehensions, and what they yield
ListCall(format, pk, partitions, filter, i, e) ==
    [format |-> format, pk |-> pk, partitions |-> partitions, filter |-> filter,
     i |-> i, e |-> e]
ListState(at, c, verify, compared) ==
    [pc |-> at, call |-> c, verify |-> verify, compared |-> compared]
NoLists == ListState("none", ListCall("", <<>>, <<>>, <<>>, <<>>, <<>>), <<>>, <<>>)

TypeOK ==
    /\ args \in ArgsSet
    /\ DOMAIN tables = TableNames
    /\ \A t \in TableNames : tables[t] \subseteq Rows
    /\ extraCols \subseteq {"None", "all"}
    /\ nullName \in NullNameAnswers
    /\ pc \in {"start", "check", "first", "show1", "second", "show2", "success",
               "done", "raised"}
    /\ vi \in {"unset", "True", "False", "raised"}

\* every combination of flags on the sample tables
FlagRuns ==
    /\ args \in ArgsSet
    /\ tables = SampleTables
    /\ extraCols \in {{}, {"None", "all"}}
    \* the answer to a null name is open in the runs that can ask for it
    /\ nullName \in IF PyNone \in {args.t1, args.t2} THEN NullNameAnswers ELSE {"raise"}

\* every pair of tables within the bounds, compared with each other (both
\* tables are named, so that the catalog is never asked about a null name)
CrossRuns ==
    /\ args \in CompareArgs({"tb"})
    /\ tables \in Worlds
    /\ extraCols = {"None", "all"}
    /\ nullName = "raise"

\* every table within the bounds, compared with itself
SelfRuns ==
    /\ args \in CompareArgs({"ta"})
    /\ tables \in {w \in Worlds : w["tb"] = {}}
    /\ extraCols = {"None", "all"}
    /\ nullName = "raise"

\* a fresh session: no temporary view, nothing printed, no query issued
Init ==
    /\ (FlagRuns \/ CrossRuns \/ SelfRuns)
    /\ views = <<>>
    /\ pc = "start"
    /\ exc = NoExc
    /\ vi = "unset"
    /\ call = NoCall
    /\ result = None
    /\ shown = <<>>
    /\ out = <<>>
    /\ sqls = <<>>
    /\ lists = NoLists

\* "if not valid_input(spark, args)", with r what the call left behind
Validated(r) ==
    /\ views' = r.views
    /\ sqls' = sqls \o r.sqls
    /\ out' = out \o r.out
    /\ exc' = r.exc
    /\ vi' = IF r.exc # NoExc THEN "raised" ELSE IF r.ret THEN "True" ELSE "False"
    /\ pc' = IF r.exc # NoExc THEN "raised" ELSE IF r.ret THEN "first" ELSE "check"
    /\ UNCHANGED <<args, tables, extraCols, nullName, call, result, shown, lists>>

\* line 23
ValidInput ==
    /\ pc = "start"
    /\ Validated(valid_input(args, views))

\* lines 24-25
PleaseCheck ==
    /\ pc = "check"
    /\ out' = Append(out, <<"|--Please Check The Inputs --|">>)
    /\ pc' = "done"
    /\ UNCHANGED <<args, tables, extraCols, nullName, views, exc, vi, call, result, shown, sqls, lists>>

\* the assignment of what a call r left behind
Called(r, next) ==
    /\ views' = r.views
    /\ sqls' = sqls \o r.sqls
    /\ out' = out \o r.out
    /\ exc' = r.exc
    /\ result' = r.ret
    /\ pc' = IF r.exc # NoExc THEN "raised" ELSE next
    /\ UNCHANGED <<args, tables, extraCols, nullName, vi, shown, lists>>

\* result = valid_pk_only_in_one_table(format, t1, t2, t1p, t2p, ...)
Call(t1, t2, t1p, t2p, next) ==
    /\ call' = Frame(t1, t2, t1p, t2p)
    /\ Called(valid_pk_only_in_one_table(args.format, t1, t2, t1p, t2p,
                                         args.pk, args.e, args.i, args.f, views), next)

\* print(f'|--PK(s) only in {t} :--|'); print(result.show())
Show(t, next) ==
    /\ IF result.df
       THEN /\ shown' = Append(shown, result.keys)
            /\ out' = out \o <<<<"|--PK(s) only in", t, ":--|">>, <<"show">>, <<"None">>>>
            /\ exc' = exc
            /\ pc' = next
       ELSE \* None.show(): AttributeError
            /\ shown' = shown
            /\ out' = Append(out, <<"|--PK(s) only in", t, ":--|">>)
            /\ exc' = "AttributeError"
            /\ pc' = "raised"
    /\ UNCHANGED <<args, tables, extraCols, nullName, views, vi, call, result, sqls, lists>>

\* line 28
FirstCall ==
    /\ pc = "first"
    /\ Call(args.t1, args.t2, args.t1p, args.t2p, "show1")

\* lines 29-30
ShowFirst ==
    /\ pc = "show1"
    /\ Show(args.t1, "second")

\* mutant: the second call does not wait for the first result to be shown
SecondCallEarly ==
    /\ pc \in {"show1", "second"}
    /\ Call(args.t2, args.t1, args.t1p, args.t2p, "show2")

\* line 32
SecondCall ==
    /\ pc = "second"
    /\ Call(args.t2, args.t1, args.t1p, args.t2p, "show2")

\* lines 33-34
ShowSecond ==
    /\ pc = "show2"
    /\ Show(args.t2, "success")

\* line 42
Success ==
    /\ pc = "success"
    /\ out' = Append(out, <<"------------run validation success-----">>)
    /\ pc' = "done"
    /\ UNCHANGED <<args, tables, extraCols, nullName, views, exc, vi, call, result, shown, sqls, lists>>

Next ==
    \/ ValidInput
    \/ PleaseCheck
    \/ FirstCall
    \/ ShowFirst
    \/ SecondCall
    \/ ShowSecond
    \/ Success

Spec == Init /\ [][Next]_vars

\* ------------------------------------------- the column-list comprehensions
\* The include and exclude lists as they can be spelled on the command line:
\* up to MaxCols names separated by ",", each with or without a blank on
\* either side.
ListNames == {"a", "d"}
Pads == {<<>>, <<" ">>}
Entries == {l \o <<c>> \o r : l \in Pads, c \in ListNames, r \in Pads}

RECURSIVE TextsOf(_)
TextsOf(n) ==
    IF n = 1 THEN Entries
    ELSE {t \o <<",">> \o en : t \in TextsOf(n - 1), en \in Entries}

ListTexts == UNION {TextsOf(n) : n \in 1..MaxCols}

\* the views as two calls of load_table leave them
Registered ==
    createOrReplaceTempView("tb", "table2",
                            createOrReplaceTempView("ta", "table1", <<>>).views).views

\* every spelling of the two lists, for a file-backed format
ListSpellings ==
    /\ lists \in {ListState("in", ListCall("parquet", <<"k">>, <<"None">>, <<"None">>, i, e),
                              <<>>, <<>>) :
                    i \in ListTexts, e \in ListTexts \cup {<<"None">>}}
    /\ views = Registered

\* every format, key, partition predicate and row filter, for some lists
ListCalls ==
    /\ lists \in {ListState("in", ListCall(fm, pk, p, f, i, e), <<>>, <<>>) :
                    fm \in FormatArgs,
                    pk \in {<<"k">>, <<"k", ",", "p">>, NoneText},
                    p \in {<<"None">>, <<"p = 1">>, <<"p = 1", "and", "p = 2">>, NoneText},
                    f \in {<<"None">>, <<"a > 100">>},
                    i \in {<<"a">>, <<"a", ",", " ", "d">>, <<"d">>},
                    e \in {<<"None">>, <<"d">>}}
    /\ views \in {<<>>, Registered}

\* a session in which only the two comprehensions and the query that uses
\* the second are run
ListsInit ==
    /\ args = [format |-> "parquet", t1 |-> "ta", t2 |-> "tb", t1p |-> "None",
               t2p |-> "None", pk |-> "k", e |-> "None", i |-> "all", f |-> "None"]
    /\ tables = SampleTables
    /\ extraCols = {}
    /\ nullName = "raise"
    /\ (ListSpellings \/ ListCalls)
    /\ pc = "start"
    /\ exc = NoExc
    /\ vi = "unset"
    /\ call = NoCall
    /\ result = None
    /\ shown = <<>>
    /\ out = <<>>
    /\ sqls = <<>>

\* lines 78-79 of valid_metadata_included_column
VerifyColumn ==
    /\ lists.pc = "in"
    /\ lists' = ListState("verified", lists.call,
                          verify_column(lists.call.i, lists.call.e), <<>>)
    /\ UNCHANGED <<args, tables, extraCols, nullName, views, pc, exc, vi, call, result, shown,
                   out, sqls>>

\* "result = get_cols_diff_with_same_pk(...)", r being what the call left
\* behind and cols the columns it compared
ColsDiffed(r, cols) ==
    /\ views' = r.views
    /\ sqls' = sqls \o r.sqls
    /\ out' = out \o r.out
    /\ exc' = r.exc
    /\ result' = r.ret
    /\ lists' = ListState("compared", lists.call, lists.verify, cols)
    /\ UNCHANGED <<args, tables, extraCols, nullName, pc, vi, call, shown>>

\* get_cols_diff_with_same_pk (lines 138-164) on the lists; the comprehension
\* of lines 143-144 is run for a file-backed format once lines 140-142 have
\* split pk and the two lists (partitions and filter are read after it)
ColsDiff ==
    /\ lists.pc = "verified"
    /\ ColsDiffed(get_cols_diff_with_same_pk(lists.call.format, "ta", "tb", lists.call.pk,
                                             lists.call.partitions, lists.call.filter,
                                             lists.call.i, lists.call.e, views),
                  IF /\ lists.call.format \in FileFormats
                     /\ NoneText \notin {lists.call.pk, lists.call.i, lists.call.e}
                  THEN compared_columns(lists.call.i, lists.call.e)
                  ELSE <<>>)

ListsNext ==
    \/ VerifyColumn
    \/ ColsDiff

ListsSpec == ListsInit /\ [][ListsNext]_vars

\* ------------------------------------------------------------ the claims
SupportedFormats == FileFormats \cup {"hive"}
BothExist == args.t1 \in TableNames /\ args.t2 \in TableNames
IsExcept(sql) == "except" \in Range(sql)
NoExceptQuery == \A n \in 1..Len(sqls) : ~IsExcept(sqls[n])
SuccessLine == <<"------------run validation success-----">>
MissingLine(t) == <<"|--Table", t, "does not exist!--|">>

\* the distinct keys of the rows of dataset t that satisfy every predicate of
\* ps ("None": no restriction)
KeysWhere(t, ps) ==
    {Key(args.pk, r) : r \in {x \in tables[t] :
                                \A q \in ps : q = "None" \/ Holds(q, x)}}

\* C1: when t1 or t2 is not in the catalog (a table flag that was not given
\* names no table of the catalog), validation() prints the diagnostic
\* of the first missing table, gives no SQL text to the engine (so no EXCEPT
\* query), registers no view, never prints the success line, and never leaves
\* by an exception: it is before line 23, at line 24, or has returned.
C1_MissingTableAborts ==
    ~BothExist =>
        /\ pc \in {"start", "check", "done"}
        /\ exc = NoExc
        /\ sqls = <<>>
        /\ views = <<>>
        /\ SuccessLine \notin Range(out)
        /\ pc # "start" =>
              /\ vi = "False"
              /\ out[1] = MissingLine(Str(IF args.t1 \notin TableNames THEN args.t1
                                             ELSE args.t2))

\* C2: for a supported format, both tables existing and the include list
\* naming a date column that is not excluded, valid_input returns False and
\* no EXCEPT query is executed.
C2_DateIncludeReturnsFalse ==
    (/\ args.format \in SupportedFormats
     /\ BothExist
     /\ args.i \in DateCols
     /\ args.e # args.i
     /\ pc # "start")
        => (vi = "False" /\ NoExceptQuery)

\* C3: for a supported format and t1p, t2p, f all the literal "None", the first
\* query returns keys(t1) \ keys(t2) and the second keys(t2) \ keys(t1)
\* (stated for the runs that pass valid_input and whose include literal the
\* engine resolves as a column).
C3_KeyDifferences ==
    (/\ args.format \in SupportedFormats
     /\ BothExist
     /\ args.t1p = "None" /\ args.t2p = "None" /\ args.f = "None"
     /\ args.i \in extraCols
     /\ vi = "True")
        => /\ exc = NoExc
           /\ Len(shown) >= 1 => shown[1] = KeysWhere(args.t1, {}) \ KeysWhere(args.t2, {})
           /\ Len(shown) >= 2 => shown[2] = KeysWhere(args.t2, {}) \ KeysWhere(args.t1, {})

\* C4: a dataset compared with itself under identical partition predicates
\* and one row filter gives two empty results, for every supported format.
C4_SelfCompareEmpty ==
    (/\ args.format \in SupportedFormats
     /\ BothExist
     /\ args.t1 = args.t2
     /\ args.t1p = args.t2p)
        => \A n \in 1..Len(shown) : shown[n] = {}

\* C5: with a row filter F (and no partition predicate) the left-only result
\* is keys({a in t1 : F(a)}) \ keys({b in t2 : F(b)}) and the right-only
\* result the symmetric one, for every supported format.
C5_FilterBothSides ==
    (/\ args.format \in SupportedFormats
     /\ BothExist
     /\ args.f \in FilterPreds
     /\ args.t1p = "None" /\ args.t2p = "None")
        => /\ Len(shown) >= 1 =>
                shown[1] = KeysWhere(args.t1, {args.f}) \ KeysWhere(args.t2, {args.f})
           /\ Len(shown) >= 2 =>
                shown[2] = KeysWhere(args.t2, {args.f}) \ KeysWhere(args.t1, {args.f})

\* C6: with a partition predicate given for exactly one of two distinct
\* datasets (and no row filter), each result is the difference of the keys of
\* the two datasets, each restricted by its own predicate only.
C6_PredicateOneSideOnly ==
    (/\ args.format \in SupportedFormats
     /\ BothExist
     /\ args.t1 # args.t2
     /\ args.f = "None"
     /\ \/ (args.t1p \in PartPreds /\ args.t2p = "None")
        \/ (args.t1p = "None" /\ args.t2p \in PartPreds))
        => /\ Len(shown) >= 1 =>
                shown[1] = KeysWhere(args.t1, {args.t1p}) \ KeysWhere(args.t2, {args.t2p})
           /\ Len(shown) >= 2 =>
                shown[2] = KeysWhere(args.t2, {args.t2p}) \ KeysWhere(args.t1, {args.t1p})

\* C7: the second call of validation() (made once the first result is shown)
\* swaps the datasets together with their partition predicates: its t1, t1p
\* are args.t2, args.t2p and its t2, t2p are args.t1, args.t1p.
C7_SecondCallSwapsAll ==
    (Len(shown) >= 1 /\ pc # "second")
        => call = Frame(args.t2, args.t1, args.t2p, args.t1p)

\* C8: for an unsupported format with both tables existing,
\* valid_pk_only_in_one_table issues no query and registers no view, and
\* validation() does not leave by an exception.
C8_UnsupportedFormatSilent ==
    (/\ args.format \notin SupportedFormats
     /\ BothExist
     /\ args.i \in {"None", "all"})
        => (sqls = <<>> /\ views = <<>> /\ pc # "raised")

\* C9: valid_input returns True only for a supported format.
C9_ValidInputChecksFormat ==
    vi = "True" => args.format \in SupportedFormats

\* C10: once valid_input has ended, by a return or by an exception, the
\* temporary views are those of before the call (none: the session is fresh),
\* for every format and include list.
C10_ValidInputKeepsViews ==
    (pc \in {"check", "first"} \/ vi = "raised") => views = <<>>

\* valid_input has ended on the path that calls load_table (line 77) for a
\* file-backed format
C10_Witness ==
    /\ vi = "raised"
    /\ BothExist
    /\ args.format \in FileFormats
    /\ args.i = "d"
    /\ views = <<>>
\* the names a list text gives once split at "," and stripped
NamesOf(text) == Range(StripAll(Split(text)))

\* C11: a column named in both the include list and the exclude list is in
\* neither the columns that valid_metadata_included_column type-checks nor the
\* columns that get_cols_diff_with_same_pk compares, whatever the spelling of
\* the two lists (blanks around the entries included).
C11_BothListsExcluded ==
    \A c \in NamesOf(lists.call.i) \cap NamesOf(lists.call.e) :
        /\ lists.pc \in {"verified", "compared"} => c \notin Range(lists.verify)
        /\ lists.pc = "compared" => c \notin Range(lists.compared)

\* a predicate flag that carries no predicate: the literal "None", or a flag
\* that was not supplied
Absent(x) == x \in {"None", PyNone}

\* the WHERE clause of a SELECT over one dataset with partition predicate p
\* and row filter f
WhereOf(p, f) ==
    IF ~Absent(p) /\ ~Absent(f) THEN <<"where", p, "and", f>>
    ELSE IF ~Absent(p) THEN <<"where", p>>
    ELSE IF ~Absent(f) THEN <<"where", f>>
    ELSE <<>>

\* what follows "select <pk>,<cols> from <view>" in a SELECT of load_table
AfterFrom(sql) == SubSeq(sql, 7, Len(sql))

\* C12: for a file-backed format, the SELECT that load_table builds for a
\* dataset ends in "where <partition> and <filter>" when both predicates are
\* present, in "where" and the one predicate when exactly one is, and has no
\* WHERE clause when neither is; a predicate is absent when its flag is the
\* literal "None" or was not supplied.  The first SELECT of a run is the one
\* over table1 (t1p), the second the one over table2 (t2p).
C12_LoadTableWhere ==
    args.format \in FileFormats =>
        /\ Len(sqls) >= 1 => AfterFrom(sqls[1]) = WhereOf(args.t1p, args.f)
        /\ Len(sqls) >= 2 => AfterFrom(sqls[2]) = WhereOf(args.t2p, args.f)

\* temporary view v holds dataset t as it is in the catalog
BoundTo(v, t) ==
    /\ v \in DOMAIN views
    /\ views[v] = [src |-> t, rows |-> tables[t]]

\* C13: for a file-backed format, when an EXCEPT query has just been executed
\* (it is the last text given to the engine), view table1 holds the left
\* dataset of the current call and view table2 its right dataset; in the
\* second call of validation() these are t2 and t1, the views of the first
\* call having been replaced.
C13_ViewsBoundToCall ==
    (args.format \in FileFormats /\ Len(sqls) >= 1 /\ IsExcept(sqls[Len(sqls)])) =>
        /\ BoundTo("table1", call.t1)
        /\ BoundTo("table2", call.t2)

\* the EXCEPT query of the second call has run over two different datasets
C13_Witness ==
    /\ args.format \in FileFormats
    /\ pc = "show2"
    /\ exc = NoExc
    /\ args.t1 # args.t2
    /\ Len(sqls) = 6
    /\ IsExcept(sqls[6])
    /\ call.t1 = args.t2
    /\ BoundTo("table1", args.t2)
    /\ BoundTo("table2", args.t1)

\* the EXCEPT queries given to the engine so far
NumExcept == Cardinality({n \in 1..Len(sqls) : IsExcept(sqls[n])})

\* the line printed before a result is shown
ShowLine(t) == <<"|--PK(s) only in", t, ":--|">>
IsShowLine(line) == Len(line) = 3 /\ line[1] = "|--PK(s) only in"

\* C14: in every run of validation(): nothing is given to the engine or shown
\* before valid_input has returned True; results are announced and shown for
\* t1 first and t2 second; a result is shown only after its EXCEPT query has
\* been executed; nothing of the second call reaches the engine before the
\* first result is shown; and the success message is the last line printed,
\* printed only when both results have been shown.
C14_EventOrder ==
    /\ (sqls # <<>> \/ shown # <<>> \/ SelectSeq(out, IsShowLine) # <<>>) => vi = "True"
    /\ SelectSeq(out, IsShowLine) \in
          {<<>>, <<ShowLine(args.t1)>>, <<ShowLine(args.t1), ShowLine(args.t2)>>}
    /\ Len(shown) <= Len(SelectSeq(out, IsShowLine))
    /\ Len(shown) <= NumExcept
    /\ NumExcept <= Len(shown) + 1
    /\ \A n \in 1..(Len(sqls) - 1) : IsExcept(sqls[n]) => Len(shown) >= 1
    /\ SuccessLine \in Range(out) =>
          /\ Len(shown) = 2
          /\ NumExcept = 2
          /\ out[Len(out)] = SuccessLine
          /\ pc = "done"

\* a run that went through every step: two queries, two results shown, then
\* the success message
C14_Witness ==
    /\ pc = "done"
    /\ vi = "True"
    /\ NumExcept = 2
    /\ Len(shown) = 2
    /\ out[Len(out)] = SuccessLine
    /\ SelectSeq(out, IsShowLine) = <<ShowLine(args.t1), ShowLine(args.t2)>>

\* what follows "select <pk> from <t> except select <pk> from <t'>" in the
\* text of a hive query
AfterExcept(sql) == SubSeq(sql, 10, Len(sql))

\* the WHERE clause made of the predicates of ps that are present
WhereAll(ps) == IF Len(ps) = 0 THEN <<>> ELSE <<"where">> \o Join(ps, "and")

\* C15: for the hive format, every SQL text that valid_pk_only_in_one_table
\* gives to the engine has a WHERE clause exactly when at least one of t1p,
\* t2p and the row filter is present, the clause being the present predicates
\* joined by "and"; no text ends in the keyword WHERE.
C15_HiveWhere ==
    args.format = "hive" =>
        \A n \in 1..Len(sqls) :
            /\ AfterExcept(sqls[n]) = WhereAll(Present(<<args.t1p, args.t2p, args.f>>))
            /\ sqls[n][Len(sqls[n])] # "where"

====
